---------------------------- MODULE Spec2Model ----------------------------
(***************************************************************************)
(* A model of topola-viewer's src/app.tsx: the GEDCOM conversion pipeline  *)
(* (prepareGedcom, birthDatesComparator, sortFamilyChildren, filterImage,  *)
(* convertGedcom) and the App component's loading state machine            *)
(* (isNewData, componentDidUpdate and the callbacks of the loads).         *)
(*                                                                         *)
(* JavaScript strings are sequences of one-character strings, objects are  *)
(* records whose optional fields are absent from the record's domain, and  *)
(* arrays that the code shares by reference live in a heap.                *)
(***************************************************************************)
EXTENDS Integers, Sequences, FiniteSets, Bags, TLC

VARIABLES
    json,       \* the output of gedcomEntriesToJson (chart data), or Null
    heap,       \* the children arrays of the families: reference -> ids
    entries,    \* the output of parseGedcom: a sequence of entries
    images,     \* the override mapping: file name -> url
    engine,     \* the algorithm behind Array.prototype.sort in this run
    result,     \* what the last operation returned (or threw)
    location,   \* props.location of the App component
    state,      \* this.state of the App component
    loads,      \* the promises of loadGedcom / loadFromUrl still pending
    mounted,    \* componentDidMount has run
    navs,       \* the number of location changes so far
    history     \* the loads rejected for the location since it last changed,
                \* and whether one of them was started again

vars == <<json, heap, entries, images, engine, result, location, state, loads, mounted, navs, history>>

pureVars == <<json, heap, entries, images, engine, result>>
appVars == <<location, state, loads, mounted, navs, history>>

-----------------------------------------------------------------------------
(* Bounds of the model. *)

\* The longest children array of a family.
MaxChildren == 3
\* The most images of an individual.
MaxImages == 2
\* The most entries of a parsed file.
MaxEntries == 3
\* The most location changes in one run of the App component.
MaxNav == 4
\* The most loads pending at once.
MaxLoads == 3

-----------------------------------------------------------------------------
(* JavaScript values. *)

\* undefined / null: a record no object of the program has the shape of.
Undefined == [undefined |-> TRUE]

IsUndefined(v) == "undefined" \in DOMAIN v

HasField(obj, f) == f \in DOMAIN obj

\* obj.f is truthy: present and, for a number, not 0.
TruthyNum(obj, f) == HasField(obj, f) /\ obj[f] # 0

\* The UTF-16 code unit of each character the model's strings use.
CharCode ==
    [c \in {"/", "\\", ".", ":", "@", "0", "1", "2", "3",
            "A", "F", "G", "H", "I", "J", "N", "P",
            "a", "b", "d", "f", "g", "h", "i", "j", "n", "p", "s", "t", "x"} |->
        CASE c = "/" -> 47 [] c = "\\" -> 92 [] c = "." -> 46 [] c = ":" -> 58
          [] c = "@" -> 64
          [] c = "0" -> 48 [] c = "1" -> 49 [] c = "2" -> 50 [] c = "3" -> 51
          [] c = "A" -> 65 [] c = "F" -> 70 [] c = "G" -> 71 [] c = "H" -> 72
          [] c = "I" -> 73
          [] c = "J" -> 74 [] c = "N" -> 78 [] c = "P" -> 80
          [] c = "a" -> 97 [] c = "b" -> 98 [] c = "d" -> 100 [] c = "f" -> 102 [] c = "g" -> 103
          [] c = "h" -> 104 [] c = "i" -> 105 [] c = "j" -> 106 [] c = "n" -> 110
          [] c = "p" -> 112 [] c = "s" -> 115 [] c = "t" -> 116 [] c = "x" -> 120]

\* a < b on strings: by code units, a proper prefix first.
RECURSIVE StrLess(_, _)
StrLess(a, b) ==
    IF b = <<>> THEN FALSE
    ELSE IF a = <<>> THEN TRUE
    ELSE IF CharCode[Head(a)] # CharCode[Head(b)]
         THEN CharCode[Head(a)] < CharCode[Head(b)]
    ELSE StrLess(Tail(a), Tail(b))

\* String.prototype.substring(start, end): arguments clamped to the length
\* and swapped when start > end.
Substring(s, start, end) ==
    LET clamp(n) == IF n < 0 THEN 0 ELSE IF n > Len(s) THEN Len(s) ELSE n
        a == clamp(start)
        b == clamp(end)
        lo == IF a < b THEN a ELSE b
        hi == IF a < b THEN b ELSE a
    IN  SubSeq(s, lo + 1, hi)

-----------------------------------------------------------------------------
(* The identifiers and birth dates of the model's chart data. *)

I1 == <<"I", "1">>
I2 == <<"I", "2">>
I10 == <<"I", "1", "0">>
I3 == <<"I", "3">>

\* The ids of the individuals of the chart data.
IndiIds == <<I1, I2, I10>>
\* The ids a family may list: I3 is no individual of the chart data.
ChildIds == {I1, I2, I10, I3}

Dates ==
    { [year |-> 1990],
      [year |-> 2000],
      [year |-> 2000, month |-> 1],
      [year |-> 2000, month |-> 2],
      [year |-> 2000, month |-> 1, day |-> 1],
      [year |-> 2000, month |-> 1, day |-> 2],
      [year |-> 2000, day |-> 1],
      [month |-> 1, day |-> 1] }

\* The birth of an individual: none, a date, a range, or an empty date
\* object beside a range.
Births ==
    { Undefined, [dateRange |-> [to |-> [year |-> 1990]]] }
    \cup { [date |-> d] : d \in Dates }
    \cup { [dateRange |-> [from |-> d]] :
             d \in { [year |-> 1990], [year |-> 2000, month |-> 1, day |-> 2] } }
    \cup { [date |-> [year |-> 2000], dateRange |-> [from |-> [year |-> 1990]]] }

Indi(id, birth) ==
    IF IsUndefined(birth) THEN [id |-> id] ELSE [id |-> id, birth |-> birth]

-----------------------------------------------------------------------------
(* strcmp and birthDatesComparator. *)

strcmp(a, b) ==
    IF StrLess(a, b) THEN -1
    ELSE IF StrLess(b, a) THEN 1
    ELSE 0

\* idToIndiMap after the forEach: each id maps to the last individual with it.
IdToIndiMap(gedcom) ==
    LET ids == { gedcom.indis[i].id : i \in DOMAIN gedcom.indis }
        last(id) == CHOOSE i \in DOMAIN gedcom.indis :
                        /\ gedcom.indis[i].id = id
                        /\ \A j \in DOMAIN gedcom.indis :
                              gedcom.indis[j].id = id => j <= i
    IN  [id \in ids |-> gedcom.indis[last(id)]]

\* birth && (birth.date || (birth.dateRange && birth.dateRange.from))
\* for the individual the map holds for indiId.
BirthDate(idToIndiMap, indiId) ==
    IF indiId \notin DOMAIN idToIndiMap THEN Undefined
    ELSE LET indi == idToIndiMap[indiId] IN
         IF ~HasField(indi, "birth") THEN Undefined
         ELSE IF HasField(indi.birth, "date") THEN indi.birth.date
         ELSE IF HasField(indi.birth, "dateRange")
                 /\ HasField(indi.birth.dateRange, "from")
              THEN indi.birth.dateRange.from
         ELSE Undefined

\* The comparison with the day branch returning the day difference.
CompareDatesDayDiff(idComparison, date1, date2) ==
    IF IsUndefined(date1) \/ ~TruthyNum(date1, "year")
       \/ IsUndefined(date2) \/ ~TruthyNum(date2, "year")
    THEN idComparison
    ELSE IF date1.year # date2.year THEN date1.year - date2.year
    ELSE IF ~TruthyNum(date1, "month") \/ ~TruthyNum(date2, "month")
         THEN idComparison
    ELSE IF date1.month # date2.month THEN date1.month - date2.month
    ELSE IF TruthyNum(date1, "day") /\ TruthyNum(date2, "day")
            /\ date1.day # date2.day
         THEN date1.day - date2.day
    ELSE idComparison

\* The body of the comparator from its locals idComparison, date1 and date2.
CompareDates(idComparison, date1, date2) ==
    IF IsUndefined(date1) \/ ~TruthyNum(date1, "year")
       \/ IsUndefined(date2) \/ ~TruthyNum(date2, "year")
    THEN idComparison
    ELSE IF date1.year # date2.year THEN date1.year - date2.year
    ELSE IF ~TruthyNum(date1, "month") \/ ~TruthyNum(date2, "month")
         THEN idComparison
    ELSE IF date1.month # date2.month THEN date1.month - date2.month
    ELSE IF TruthyNum(date1, "day") /\ TruthyNum(date2, "day")
            /\ date1.day # date2.day
         THEN date1.month - date2.month
    ELSE idComparison

\* The function birthDatesComparator(gedcom) returns, applied to two ids.
birthDatesComparator(gedcom, indiId1, indiId2) ==
    CompareDates(strcmp(indiId1, indiId2),
                 BirthDate(IdToIndiMap(gedcom), indiId1),
                 BirthDate(IdToIndiMap(gedcom), indiId2))

-----------------------------------------------------------------------------
(* Array.prototype.sort(comparator), as the engines a browser runs it on *)
(* compute it: the language leaves the order to the implementation when  *)
(* the comparator is not a consistent comparison function.               *)

Engines == {"insertion", "binaryInsertion", "merge"}

MaxOf(S) == CHOOSE n \in S : \A m \in S : m <= n

MinOf(S) == CHOOSE n \in S : \A m \in S : n <= m

Reverse(a) == [i \in 1..Len(a) |-> a[Len(a) + 1 - i]]

\* a with the element at index i moved to sit right after index j (j < i).
MoveAfter(a, i, j) ==
    SubSeq(a, 1, j) \o <<a[i]>> \o SubSeq(a, j + 1, i - 1) \o SubSeq(a, i + 1, Len(a))

\* The index the element moves behind: that of the nearest element on its
\* left that does not compare greater, 0 when there is none.
StopIndex(stops) == IF stops = {} THEN 0 ELSE MaxOf(stops)

\* Insertion sort (V8 before 7.0, arrays of at most 10 elements): each
\* element moves left past the elements that compare greater than it.
RECURSIVE InsertionSortFrom(_, _, _)
InsertionSortFrom(a, i, gedcom) ==
    IF i > Len(a) THEN a
    ELSE InsertionSortFrom(
             MoveAfter(a, i, StopIndex({ j \in 1..(i - 1) :
                                  birthDatesComparator(gedcom, a[j], a[i]) <= 0 })),
             i + 1, gedcom)

\* The binary search of the insertion point of pivot in a[left+1 .. right].
RECURSIVE BinarySearch(_, _, _, _, _)
BinarySearch(a, pivot, left, right, gedcom) ==
    IF left >= right THEN left
    ELSE LET mid == left + ((right - left) \div 2) IN
         IF birthDatesComparator(gedcom, pivot, a[mid + 1]) < 0
         THEN BinarySearch(a, pivot, left, mid, gedcom)
         ELSE BinarySearch(a, pivot, mid + 1, right, gedcom)

RECURSIVE BinaryInsertFrom(_, _, _)
BinaryInsertFrom(a, start, gedcom) ==
    IF start > Len(a) THEN a
    ELSE BinaryInsertFrom(
             MoveAfter(a, start, BinarySearch(a, a[start], 0, start - 1, gedcom)),
             start + 1, gedcom)

\* The length of the leading run: it ends before the first element that
\* breaks the run's direction.
RunLength(a, breaks) == IF breaks = {} THEN Len(a) ELSE MinOf(breaks) - 1

\* The array with its leading run made ascending.
MakeAscending(a, descending, runLength) ==
    IF descending
    THEN Reverse(SubSeq(a, 1, runLength)) \o SubSeq(a, runLength + 1, Len(a))
    ELSE a

InsertAfterRun(a, descending, runLength, gedcom) ==
    BinaryInsertFrom(MakeAscending(a, descending, runLength), runLength + 1, gedcom)

CountRun(a, descending, gedcom) ==
    InsertAfterRun(a, descending,
        RunLength(a, { i \in 3..Len(a) :
                         IF descending
                         THEN birthDatesComparator(gedcom, a[i], a[i - 1]) >= 0
                         ELSE birthDatesComparator(gedcom, a[i], a[i - 1]) < 0 }),
        gedcom)

\* TimSort on a short array (V8 from 7.0): the leading run is found and made
\* ascending, the rest is inserted by binary search.
BinaryInsertionSort(a, gedcom) ==
    IF Len(a) < 2 THEN a
    ELSE CountRun(a, birthDatesComparator(gedcom, a[2], a[1]) < 0, gedcom)

\* The merge of two adjacent runs: the right head is taken when it compares
\* less than the left head.
RECURSIVE Merge(_, _, _)
Merge(left, right, gedcom) ==
    IF right = <<>> THEN left
    ELSE IF left = <<>> THEN right
    ELSE IF birthDatesComparator(gedcom, Head(right), Head(left)) < 0
         THEN <<Head(right)>> \o Merge(left, Tail(right), gedcom)
    ELSE <<Head(left)>> \o Merge(Tail(left), right, gedcom)

RECURSIVE MergePass(_, _, _)
MergePass(a, width, gedcom) ==
    IF Len(a) <= width THEN a
    ELSE LET rightEnd == IF 2 * width < Len(a) THEN 2 * width ELSE Len(a)
         IN  Merge(SubSeq(a, 1, width), SubSeq(a, width + 1, rightEnd), gedcom)
                 \o MergePass(SubSeq(a, rightEnd + 1, Len(a)), width, gedcom)

\* Bottom-up merge sort (JavaScriptCore): runs of width 1, 2, 4, ... merged.
RECURSIVE MergeSortFrom(_, _, _)
MergeSortFrom(a, width, gedcom) ==
    IF width >= Len(a) THEN a
    ELSE MergeSortFrom(MergePass(a, width, gedcom), 2 * width, gedcom)

\* array.sort(birthDatesComparator(gedcom)): the new contents of the array.
ArraySort(a, gedcom, eng) ==
    CASE eng = "insertion" -> InsertionSortFrom(a, 2, gedcom)
      [] eng = "binaryInsertion" -> BinaryInsertionSort(a, gedcom)
      [] eng = "merge" -> MergeSortFrom(a, 1, gedcom)

-----------------------------------------------------------------------------
(* sortFamilyChildren and sortChildren. A family holds a reference to its *)
(* children array; the arrays are in the heap h.                          *)

\* The family returned and the heap after the call. fam.children.sort sorts
\* the array in place and returns the same array.
sortFamilyChildren(fam, gedcom, h, eng) ==
    IF ~HasField(fam, "children")
    THEN [fam |-> fam, heap |-> h, copied |-> FALSE]
    ELSE LET newChildren == fam.children
         IN  [fam |-> [fam EXCEPT !.children = newChildren],
              heap |-> [h EXCEPT ![fam.children] = ArraySort(h[fam.children], gedcom, eng)],
              copied |-> TRUE]

\* gedcom.fams.map(sortFamilyChildren) from family i on: the new families and
\* the heap after the calls. The comparator is built from the gedcom passed in.
RECURSIVE SortFamsFrom(_, _, _, _)

\* The families from i on, given what sortFamilyChildren returned for family i.
SortFamsAfter(gedcom, i, one, eng) ==
    [fams |-> <<one.fam>> \o SortFamsFrom(gedcom, i + 1, one.heap, eng).fams,
     heap |-> SortFamsFrom(gedcom, i + 1, one.heap, eng).heap]

SortFamsFrom(gedcom, i, h, eng) ==
    IF i > Len(gedcom.fams) THEN [fams |-> <<>>, heap |-> h]
    ELSE SortFamsAfter(gedcom, i, sortFamilyChildren(gedcom.fams[i], gedcom, h, eng), eng)

\* The chart data with the families replaced by the sorted ones.
WithFams(gedcom, sorted) ==
    [gedcom |-> [gedcom EXCEPT !.fams = sorted.fams], heap |-> sorted.heap]

sortChildren(gedcom, h, eng) == WithFams(gedcom, SortFamsFrom(gedcom, 1, h, eng))

-----------------------------------------------------------------------------
(* isImageFile and filterImage. *)

\* String.prototype.toLowerCase on the characters the model's strings use.
LowerChar(c) ==
    CASE c = "A" -> "a" [] c = "F" -> "f" [] c = "G" -> "g" [] c = "H" -> "h"
      [] c = "I" -> "i" [] c = "J" -> "j" [] c = "N" -> "n" [] c = "P" -> "p"
      [] OTHER -> c

ToLowerCase(s) == [i \in 1..Len(s) |-> LowerChar(s[i])]

StartsWith(s, prefix) ==
    Len(s) >= Len(prefix) /\ SubSeq(s, 1, Len(prefix)) = prefix

EndsWith(s, suffix) ==
    Len(s) >= Len(suffix) /\ SubSeq(s, Len(s) - Len(suffix) + 1, Len(s)) = suffix

IMAGE_EXTENSIONS ==
    << <<".", "j", "p", "g">>, <<".", "p", "n", "g">>, <<".", "g", "i", "f">> >>

\* isImageFile comparing the name as written, not lower-cased.
isImageFileCaseSensitive(fileName) ==
    \E i \in DOMAIN IMAGE_EXTENSIONS : EndsWith(fileName, IMAGE_EXTENSIONS[i])

isImageFile(fileName) ==
    LET lowerName == ToLowerCase(fileName)
    IN  \E i \in DOMAIN IMAGE_EXTENSIONS : EndsWith(lowerName, IMAGE_EXTENSIONS[i])

\* url.match(/[^/\\]*$/)[0]: the longest suffix without a slash or backslash.
RECURSIVE MatchFileName(_)
MatchFileName(url) ==
    IF url = <<>> THEN <<>>
    ELSE IF url[Len(url)] \in {"/", "\\"} THEN <<>>
    ELSE MatchFileName(SubSeq(url, 1, Len(url) - 1)) \o <<url[Len(url)]>>

\* The images pushed to newImages for the images from index i on.
RECURSIVE FilterFrom(_, _, _)
FilterFrom(imgs, i, overrides) ==
    IF i > Len(imgs) THEN <<>>
    ELSE LET image == imgs[i]
             fileName == MatchFileName(image.url)
             rest == FilterFrom(imgs, i + 1, overrides)
         IN  IF fileName \in DOMAIN overrides
             THEN <<[image EXCEPT !.url = overrides[fileName]]>> \o rest
             ELSE IF StartsWith(image.url, <<"h", "t", "t", "p">>)
                     /\ isImageFile(image.url)
                  THEN <<image>> \o rest
             ELSE rest

filterImage(indi, overrides) ==
    IF ~HasField(indi, "images") \/ Len(indi.images) = 0
    THEN indi
    ELSE [indi EXCEPT !.images = FilterFrom(indi.images, 1, overrides)]

filterImages(gedcom, overrides) ==
    [gedcom EXCEPT !.indis =
        [i \in 1..Len(gedcom.indis) |-> filterImage(gedcom.indis[i], overrides)]]

-----------------------------------------------------------------------------
(* pointerToId and prepareGedcom. *)

pointerToId(pointer) == Substring(pointer, 1, Len(pointer) - 1)

\* f with key k set to v: an assignment obj[k] = v.
Put(f, k, v) == [x \in DOMAIN f \cup {k} |-> IF x = k THEN v ELSE f[x]]

NoMap == [x \in {} |-> x]

\* The three mappings after entries.forEach has visited the entries up to i.
RECURSIVE IndexUpTo(_, _)
IndexUpTo(es, i) ==
    IF i = 0 THEN [indis |-> NoMap, fams |-> NoMap, other |-> NoMap]
    ELSE LET sofar == IndexUpTo(es, i - 1)
             entry == es[i]
         IN  IF entry.tag = "INDI"
             THEN [sofar EXCEPT !.indis = Put(@, pointerToId(entry.pointer), entry)]
             ELSE IF entry.tag = "FAM"
                  THEN [sofar EXCEPT !.fams = Put(@, pointerToId(entry.pointer), entry)]
             ELSE IF entry.pointer # <<>>
                  THEN [sofar EXCEPT !.other = Put(@, pointerToId(entry.pointer), entry)]
             ELSE sofar

\* The mappings with the first entry of an identifier kept, not the last.
RECURSIVE IndexFirstWins(_, _)
IndexFirstWins(es, i) ==
    IF i = 0 THEN [indis |-> NoMap, fams |-> NoMap, other |-> NoMap]
    ELSE LET sofar == IndexFirstWins(es, i - 1)
             entry == es[i]
             id == pointerToId(entry.pointer)
             keep(f) == IF id \in DOMAIN f THEN f ELSE Put(f, id, entry)
         IN  IF entry.tag = "INDI" THEN [sofar EXCEPT !.indis = keep(@)]
             ELSE IF entry.tag = "FAM" THEN [sofar EXCEPT !.fams = keep(@)]
             ELSE IF entry.pointer # <<>> THEN [sofar EXCEPT !.other = keep(@)]
             ELSE sofar

BuildIndexFirstWins(es) == IndexFirstWins(es, Len(es))

BuildIndex(es) == IndexUpTo(es, Len(es))

\* entries.find((entry) => entry.tag === 'HEAD')
FindHead(es) ==
    LET heads == { i \in DOMAIN es : es[i].tag = "HEAD" }
    IN  IF heads = {} THEN Undefined ELSE es[MinOf(heads)]

prepareGedcom(es) ==
    LET index == BuildIndex(es)
    IN  [head |-> FindHead(es), indis |-> index.indis,
         fams |-> index.fams, other |-> index.other]

-----------------------------------------------------------------------------
(* convertGedcom, from the outputs of parseGedcom (es) and of            *)
(* gedcomEntriesToJson (js): what it returns or throws, and the heap.    *)

\* The value convertGedcom returns, from the sorted chart data.
Converted(sorted, es, overrides) ==
    [threw |-> FALSE,
     value |-> [chartData |-> filterImages(sorted.gedcom, overrides),
                gedcom |-> prepareGedcom(es)],
     heap |-> sorted.heap]

\* convertGedcom without the check of json.fams.length.
convertGedcomNoFamsLength(js, es, overrides, h, eng) ==
    IF \/ IsUndefined(js)
       \/ ~HasField(js, "indis")
       \/ Len(js.indis) = 0
       \/ ~HasField(js, "fams")
    THEN [threw |-> TRUE, message |-> "Failed to read GEDCOM file", heap |-> h]
    ELSE Converted(sortChildren(js, h, eng), es, overrides)

convertGedcom(js, es, overrides, h, eng) ==
    IF \/ IsUndefined(js)
       \/ ~HasField(js, "indis")
       \/ Len(js.indis) = 0
       \/ ~HasField(js, "fams")
       \/ Len(js.fams) = 0
    THEN [threw |-> TRUE, message |-> "Failed to read GEDCOM file", heap |-> h]
    ELSE Converted(sortChildren(js, h, eng), es, overrides)

-----------------------------------------------------------------------------
(* Values of the variables an operation does not use. *)

Null == Undefined

NoJson == [indis |-> <<>>, fams |-> <<>>]
NoResult == [op |-> "none"]
\* An absent query parameter or state field of string type.
None == "undefined"

NoLocation == [pathname |-> "/", file |-> None, url |-> None, indi |-> None]

\* state: State = {loading: false}
InitialState ==
    [data |-> Undefined, selection |-> Undefined, hash |-> None, error |-> None,
     loading |-> FALSE, url |-> None]

PureIdle ==
    /\ json = NoJson
    /\ heap = <<>>
    /\ entries = <<>>
    /\ images = <<>>
    /\ engine = "none"
    /\ result = NoResult

NoHistory == [failed |-> {}, retried |-> FALSE]

AppIdle ==
    /\ location = NoLocation
    /\ state = InitialState
    /\ loads = EmptyBag
    /\ mounted = FALSE
    /\ navs = 0
    /\ history = NoHistory

-----------------------------------------------------------------------------
(* The comparator applied to the ids of a chart data. *)

\* The chart data: one individual per id of IndiIds, each with any birth.
ChartIndis ==
    { [i \in 1..Len(IndiIds) |-> Indi(IndiIds[i], b[i])] :
        b \in [1..Len(IndiIds) -> Births] }

InitCompare ==
    /\ json \in { [indis |-> is, fams |-> <<>>] : is \in ChartIndis }
    /\ heap = <<>>
    /\ entries = <<>>
    /\ images = <<>>
    /\ engine = "none"
    /\ result = NoResult
    /\ AppIdle

\* comparator(a, b), comparator(b, a), comparator(b, c) and comparator(a, c)
\* of the comparator built from the chart data.
Compare(a, b, c) ==
    /\ result.op = "none"
    /\ result' = [op |-> "compare", a |-> a, b |-> b, c |-> c,
                  ab |-> birthDatesComparator(json, a, b),
                  ba |-> birthDatesComparator(json, b, a),
                  bc |-> birthDatesComparator(json, b, c),
                  ac |-> birthDatesComparator(json, a, c)]
    /\ UNCHANGED <<json, heap, entries, images, engine>>
    /\ UNCHANGED appVars

NextCompare == \E a \in ChildIds, b \in ChildIds, c \in ChildIds : Compare(a, b, c)

SpecCompare == InitCompare /\ [][NextCompare]_vars

-----------------------------------------------------------------------------
(* C5, C6: the comparator. *)

Sign(n) == IF n < 0 THEN -1 ELSE IF n > 0 THEN 1 ELSE 0

\* The individual of the chart data with the given id, if any.
Known(gedcom, id) == \E i \in DOMAIN gedcom.indis : gedcom.indis[i].id = id

IndiOf(gedcom, id) ==
    gedcom.indis[CHOOSE i \in DOMAIN gedcom.indis : gedcom.indis[i].id = id]

\* The birth date of the rule list: date, else dateRange.from, else none.
ResolvedDate(gedcom, id) ==
    LET indi == IndiOf(gedcom, id) IN
    CASE ~("birth" \in DOMAIN indi) -> Undefined
      [] "birth" \in DOMAIN indi /\ "date" \in DOMAIN indi.birth -> indi.birth.date
      [] "birth" \in DOMAIN indi /\ ~("date" \in DOMAIN indi.birth)
           /\ "dateRange" \in DOMAIN indi.birth
           /\ "from" \in DOMAIN indi.birth.dateRange -> indi.birth.dateRange.from
      [] OTHER -> Undefined

\* Ordinal comparison of two ids: -1 when a sorts first, 1 when b does.
Ordinal(a, b) == CHOOSE r \in {-1, 0, 1} :
    /\ r = -1 <=> StrLess(a, b)
    /\ r = 0 <=> a = b

\* No usable year: the id is unknown, has no date, or the date has no year.
NoYear(gedcom, id) ==
    \/ ~Known(gedcom, id)
    \/ IsUndefined(ResolvedDate(gedcom, id))
    \/ ~("year" \in DOMAIN ResolvedDate(gedcom, id))

\* The ordered rule list of the comparison step, first decisive rule first.
RuleList(gedcom, a, b) ==
    IF NoYear(gedcom, a) \/ NoYear(gedcom, b) THEN Ordinal(a, b)
    ELSE LET d1 == ResolvedDate(gedcom, a)
             d2 == ResolvedDate(gedcom, b)
         IN  IF d1.year # d2.year THEN d1.year - d2.year
             ELSE IF ~("month" \in DOMAIN d1) \/ ~("month" \in DOMAIN d2)
                  THEN Ordinal(a, b)
             ELSE IF d1.month # d2.month THEN d1.month - d2.month
             ELSE IF "day" \in DOMAIN d1 /\ "day" \in DOMAIN d2 /\ d1.day # d2.day
                  THEN 0
             ELSE Ordinal(a, b)

\* C5: for every chart data and pair of ids the comparator returns the value
\* of the ordered rule list: the ordinal comparison of the ids when either id
\* has no usable year, else the year difference, else the ordinal comparison
\* when a month is missing, else the month difference, else 0 when both days
\* are present and differ, else the ordinal comparison.
ComparatorFollowsRuleList ==
    result.op = "compare" =>
        /\ result.ab = RuleList(json, result.a, result.b)
        /\ result.ba = RuleList(json, result.b, result.a)
        /\ result.bc = RuleList(json, result.b, result.c)
        /\ result.ac = RuleList(json, result.a, result.c)

\* Two distinct individuals born in the same month on different days compare 0.
WitnessDayQuirk ==
    /\ result.op = "compare"
    /\ result.a # result.b
    /\ Known(json, result.a) /\ Known(json, result.b)
    /\ LET d1 == ResolvedDate(json, result.a)
           d2 == ResolvedDate(json, result.b)
       IN  /\ ~IsUndefined(d1) /\ ~IsUndefined(d2)
           /\ DOMAIN d1 = {"year", "month", "day"}
           /\ DOMAIN d2 = {"year", "month", "day"}
           /\ d1.year = d2.year /\ d1.month = d2.month /\ d1.day # d2.day
    /\ result.ab = 0

\* C6: the comparator is a total order over the ids: comparing a with b and b
\* with a gives opposite signs, the result is 0 only for the same id, and a
\* before b and b before c imply a before c.
ComparatorTotalOrder ==
    result.op = "compare" =>
        /\ Sign(result.ab) = -Sign(result.ba)
        /\ (result.ab = 0 => result.a = result.b)
        /\ (result.ab < 0 /\ result.bc < 0 => result.ac < 0)

\* C6, the part the day branch does not break: transitivity alone.
ComparatorTransitive ==
    result.op = "compare" =>
        (result.ab < 0 /\ result.bc < 0 => result.ac < 0)

-----------------------------------------------------------------------------
(* sortFamilyChildren applied to a family, and again to the family it *)
(* returned.                                                          *)

\* The births of the sorted families' chart data.
SortBirths ==
    { Undefined,
      [date |-> [year |-> 1990]],
      [date |-> [year |-> 2000]],
      [date |-> [year |-> 2000, month |-> 1]],
      [date |-> [year |-> 2000, month |-> 1, day |-> 1]],
      [date |-> [year |-> 2000, month |-> 1, day |-> 2]] }

SortIndis ==
    { [i \in 1..Len(IndiIds) |-> Indi(IndiIds[i], b[i])] :
        b \in [1..Len(IndiIds) -> SortBirths] }

\* The children arrays: up to MaxChildren distinct ids.
ChildrenArrays ==
    UNION { { a \in [1..n -> ChildIds] : \A i, j \in 1..n : a[i] = a[j] => i = j } :
              n \in 0..MaxChildren }

F1 == <<"F", "1">>

InitSort ==
    /\ \E is \in SortIndis :
          \/ /\ json = [indis |-> is, fams |-> <<[id |-> F1]>>]
             /\ heap = <<>>
          \/ /\ json = [indis |-> is, fams |-> <<[id |-> F1, children |-> 1]>>]
             /\ heap \in { <<a>> : a \in ChildrenArrays }
    /\ entries = <<>>
    /\ images = <<>>
    /\ engine \in Engines
    /\ result = NoResult
    /\ AppIdle

\* The heap and the record of a call of sortFamilyChildren on fam that
\* returned ret. before: the array's contents at the call; after: those of the
\* returned family's array at the return.
Returned(op, fam, ret) ==
    /\ heap' = ret.heap
    /\ result' = [op |-> op, input |-> fam, fam |-> ret.fam, copied |-> ret.copied,
                  before |-> IF HasField(fam, "children")
                             THEN heap[fam.children] ELSE <<>>,
                  after |-> IF HasField(ret.fam, "children")
                            THEN ret.heap[ret.fam.children] ELSE <<>>,
                  first |-> IF op = "sort" THEN <<>> ELSE result.after]

\* sortFamilyChildren(fam, birthDatesComparator(json)) on the family of json.
SortFamily ==
    /\ result.op = "none"
    /\ Returned("sort", json.fams[1],
                sortFamilyChildren(json.fams[1], json, heap, engine))
    /\ UNCHANGED <<json, entries, images, engine>>
    /\ UNCHANGED appVars

\* sortFamilyChildren applied to the family the first call returned.
SortAgain ==
    /\ result.op = "sort"
    /\ Returned("sortAgain", result.fam,
                sortFamilyChildren(result.fam, json, heap, engine))
    /\ UNCHANGED <<json, entries, images, engine>>
    /\ UNCHANGED appVars

NextSort == SortFamily \/ SortAgain

SpecSort == InitSort /\ [][NextSort]_vars

-----------------------------------------------------------------------------
(* C1, C7: sortFamilyChildren. *)

\* C1: sortFamilyChildren never mutates its input family: after the call the
\* input family's children array holds the same ids in the same order as
\* before the call.
SortLeavesInputUnchanged ==
    (result.op = "sort" /\ HasField(result.input, "children")) =>
        heap[result.input.children] = result.before

\* C1, the allocation: the returned family's children array is another array
\* than the input family's.
SortReturnsFreshArray ==
    (result.op = "sort" /\ HasField(result.input, "children")) =>
        result.fam.children # result.input.children

\* C7: sortFamilyChildren is idempotent: applied to the family it returned,
\* it yields the children sequence of the first application.
SortIdempotent ==
    result.op = "sortAgain" => result.after = result.first

-----------------------------------------------------------------------------
(* filterImage applied to an individual and an override mapping. *)

HttpJpg == <<"h", "t", "t", "p", ":", "/", "/", "a", "/", "p", ".", "j", "p", "g">>
HttpsPng == <<"h", "t", "t", "p", "s", ":", "/", "/", "a", "/", "x", ".", "P", "N", "G">>
FtpJpg == <<"f", "t", "p", ":", "/", "/", "a", "/", "p", ".", "j", "p", "g">>
HttpTxt == <<"h", "t", "t", "p", ":", "/", "/", "a", "/", "p", ".", "t", "x", "t">>
UpperHttpJpg == <<"H", "t", "t", "p", ":", "/", "/", "a", "/", "i", ".", "j", "p", "g">>
BarePng == <<"x", ".", "P", "N", "G">>
DirGif == <<"d", "\\", "i", ".", "g", "i", "f">>
HttpDir == <<"h", "t", "t", "p", ":", "/", "/", "a", ".", "g", "i", "f", "/">>

Urls == {HttpJpg, HttpsPng, FtpJpg, HttpTxt, UpperHttpJpg, BarePng, DirGif, HttpDir}

Title1 == <<"t", "1">>
Blob1 == <<"b", ":", "1">>
Blob2 == <<"b", ":", "2">>

Images == { [url |-> u] : u \in Urls } \cup { [url |-> u, title |-> Title1] : u \in Urls }

\* The override mappings: by file name.
Overrides ==
    { NoMap,
      [n \in {<<"p", ".", "j", "p", "g">>} |-> Blob1],
      [n \in {<<"i", ".", "g", "i", "f">>, <<"x", ".", "P", "N", "G">>} |->
          IF n = <<"i", ".", "g", "i", "f">> THEN Blob1 ELSE Blob2],
      [n \in {<<"p", ".", "t", "x", "t">>, <<>>} |-> Blob2] }

ImageLists == UNION { [1..n -> Images] : n \in 0..MaxImages }

InitImages ==
    /\ \E birth \in {Undefined, [date |-> [year |-> 1990]]} :
          json \in { [indis |-> <<Indi(I1, birth)>>, fams |-> <<>>] }
              \cup { [indis |-> <<Indi(I1, birth) @@ [images |-> l]>>, fams |-> <<>>] :
                       l \in ImageLists }
    /\ images \in Overrides
    /\ heap = <<>>
    /\ entries = <<>>
    /\ engine = "none"
    /\ result = NoResult
    /\ AppIdle

FilterImage ==
    /\ result.op = "none"
    /\ result' = [op |-> "filterImage", indi |-> filterImage(json.indis[1], images)]
    /\ UNCHANGED <<json, heap, entries, images, engine>>
    /\ UNCHANGED appVars

NextImages == FilterImage

SpecImages == InitImages /\ [][NextImages]_vars

-----------------------------------------------------------------------------
(* C3: filterImage. *)

\* The last path segment of url, split on '/' and '\'.
LastSegment(url) ==
    LET seps == { i \in 1..Len(url) : url[i] = "/" \/ url[i] = "\\" }
    IN  IF seps = {} THEN url ELSE SubSeq(url, MaxOf(seps) + 1, Len(url))

Overridden(image, overrides) == LastSegment(image.url) \in DOMAIN overrides

RemoteImage(image) ==
    /\ Len(image.url) >= 4
    /\ image.url[1] = "h" /\ image.url[2] = "t" /\ image.url[3] = "t" /\ image.url[4] = "p"
    /\ LET lower == ToLowerCase(image.url)
           ext == SubSeq(lower, Len(lower) - 3, Len(lower))
       IN  ext \in { <<".", "j", "p", "g">>, <<".", "p", "n", "g">>, <<".", "g", "i", "f">> }

Kept(image, overrides) == Overridden(image, overrides) \/ RemoteImage(image)

\* The image a kept image becomes: the override's url, else unchanged.
KeptAs(image, overrides) ==
    IF Overridden(image, overrides)
    THEN [f \in DOMAIN image |->
            IF f = "url" THEN overrides[LastSegment(image.url)] ELSE image[f]]
    ELSE image

\* out is the images of imgs that are kept, in their order, each as KeptAs.
IsKeptSubsequence(out, imgs, overrides) ==
    LET kept == { i \in 1..Len(imgs) : Kept(imgs[i], overrides) }
    IN  /\ Len(out) = Cardinality(kept)
        /\ \A i \in kept :
              out[Cardinality({ j \in kept : j <= i })] = KeptAs(imgs[i], overrides)

\* C3: for an individual with images, filterImage returns exactly the images,
\* in their order, whose file name is an override key or whose url starts with
\* 'http' and, lower-cased, ends with '.jpg', '.png' or '.gif'; an overridden
\* image has the override's url, any other its own; every title is kept.
FilterImageKeepsExactly ==
    (result.op = "filterImage" /\ HasField(json.indis[1], "images")) =>
        /\ HasField(result.indi, "images")
        /\ IsKeptSubsequence(result.indi.images, json.indis[1].images, images)
        /\ \A f \in DOMAIN json.indis[1] \ {"images"} :
              HasField(result.indi, f) /\ result.indi[f] = json.indis[1][f]

\* An image overridden whatever its scheme, beside an image dropped.
WitnessOverrideAndDrop ==
    /\ result.op = "filterImage"
    /\ HasField(json.indis[1], "images")
    /\ Len(json.indis[1].images) = 2
    /\ json.indis[1].images[1].url = FtpJpg
    /\ Overridden(json.indis[1].images[1], images)
    /\ json.indis[1].images[2].url = UpperHttpJpg
    /\ result.indi.images = <<[url |-> Blob1, title |-> Title1]>>

-----------------------------------------------------------------------------
(* prepareGedcom applied to a sequence of entries. *)

Entry(tag, pointer, data) == [tag |-> tag, pointer |-> pointer, data |-> data, tree |-> <<>>]

PtrI1 == <<"@", "I", "1", "@">>
PtrF1 == <<"@", "F", "1", "@">>
PtrN1 == <<"@", "N", "1", "@">>

Entries ==
    { Entry("HEAD", <<>>, "a"), Entry("HEAD", <<>>, "b"),
      Entry("INDI", PtrI1, "a"), Entry("INDI", PtrI1, "b"),
      Entry("INDI", PtrF1, "a"), Entry("FAM", PtrF1, "a"),
      Entry("FAM", PtrF1, "b"), Entry("NOTE", PtrI1, "a"),
      Entry("SOUR", PtrI1, "a"), Entry("NOTE", PtrN1, "a"),
      Entry("TRLR", <<>>, "a") }

EntryLists == UNION { [1..n -> Entries] : n \in 0..MaxEntries }

InitIndex ==
    /\ entries \in EntryLists
    /\ json = NoJson
    /\ heap = <<>>
    /\ images = <<>>
    /\ engine = "none"
    /\ result = NoResult
    /\ AppIdle

PrepareGedcom ==
    /\ result.op = "none"
    /\ result' = [op |-> "prepareGedcom", gedcom |-> prepareGedcom(entries)]
    /\ UNCHANGED <<json, heap, entries, images, engine>>
    /\ UNCHANGED appVars

NextIndex == PrepareGedcom

SpecIndex == InitIndex /\ [][NextIndex]_vars

-----------------------------------------------------------------------------
(* C4: prepareGedcom. *)

\* The pointer without its first and last character.
Strip(pointer) ==
    IF Len(pointer) < 2 THEN <<>> ELSE [i \in 1..(Len(pointer) - 2) |-> pointer[i + 1]]

Ids == { Strip(p) : p \in {PtrI1, PtrF1, PtrN1, <<>>} } \cup {I2}

\* m maps id to the last entry of es in the category, and to nothing when the
\* category has no entry with that id.
IsLastOf(m, es, id, InCategory(_)) ==
    LET hits == { i \in 1..Len(es) : InCategory(es[i]) /\ Strip(es[i].pointer) = id }
    IN  IF hits = {} THEN id \notin DOMAIN m
        ELSE id \in DOMAIN m /\ m[id] = es[MaxOf(hits)]

IsIndi(e) == e.tag = "INDI"
IsFam(e) == e.tag = "FAM"
IsOther(e) == e.tag # "INDI" /\ e.tag # "FAM" /\ e.pointer # <<>>

\* C4: for an entry sequence with a HEAD entry, indis, fams and other map each
\* identifier to the last entry of their category with it (INDI; FAM; bearing
\* a pointer and neither), hold no entry of another category, and head is the
\* first HEAD entry.
IndexLastWinsByCategory ==
    (result.op = "prepareGedcom" /\ \E i \in DOMAIN entries : entries[i].tag = "HEAD") =>
        LET g == result.gedcom IN
        /\ \A id \in Ids \cup DOMAIN g.indis \cup DOMAIN g.fams \cup DOMAIN g.other :
              /\ IsLastOf(g.indis, entries, id, IsIndi)
              /\ IsLastOf(g.fams, entries, id, IsFam)
              /\ IsLastOf(g.other, entries, id, IsOther)
        /\ \A id \in DOMAIN g.indis : g.indis[id].tag = "INDI"
        /\ \A id \in DOMAIN g.fams : g.fams[id].tag = "FAM"
        /\ \A id \in DOMAIN g.other :
              g.other[id].tag \notin {"INDI", "FAM"} /\ g.other[id].pointer # <<>>
        /\ g.head.tag = "HEAD"
        /\ \E i \in DOMAIN entries :
              /\ entries[i] = g.head
              /\ \A j \in 1..(i - 1) : entries[j].tag # "HEAD"

\* Two INDI entries with one identifier after a HEAD: the later one is indexed.
WitnessDuplicateIndi ==
    /\ result.op = "prepareGedcom"
    /\ Len(entries) = 3
    /\ entries[1].tag = "HEAD"
    /\ entries[2] = Entry("INDI", PtrI1, "a")
    /\ entries[3] = Entry("INDI", PtrI1, "b")
    /\ result.gedcom.indis[I1] = entries[3]

-----------------------------------------------------------------------------
(* convertGedcom applied to the outputs of the parser and the converter. *)

F2 == <<"F", "2">>

ConvertIndis ==
    { <<Indi(I1, b1) @@ [images |-> <<[url |-> FtpJpg], [url |-> HttpsPng, title |-> Title1]>>],
        Indi(I2, b2), Indi(I10, Undefined)>> :
        b1 \in {[date |-> [year |-> 2000]], [date |-> [year |-> 2000, month |-> 1, day |-> 2]]},
        b2 \in {[date |-> [year |-> 1990]], [date |-> [year |-> 2000, month |-> 1, day |-> 1]]} }

\* The families of a chart data with the heap their children arrays are in.
ConvertFams ==
    { [fams |-> <<[id |-> F1]>>, heap |-> <<>>] }
    \cup { [fams |-> <<[id |-> F1, children |-> 1]>>, heap |-> <<a>>] :
             a \in { c \in ChildrenArrays : Len(c) = MaxChildren } }
    \cup { [fams |-> <<[id |-> F1, children |-> 1], [id |-> F2, children |-> 2]>>,
            heap |-> <<<<I2, I1>>, <<I3, I1>>>>] }

ConvertEntries ==
    { <<>>,
      <<Entry("HEAD", <<>>, "a"), Entry("INDI", PtrI1, "a"), Entry("FAM", PtrF1, "a")>>,
      <<Entry("HEAD", <<>>, "a"), Entry("INDI", PtrI1, "a"), Entry("INDI", PtrI1, "b")>> }

InitConvert ==
    /\ \E is \in ConvertIndis, f \in ConvertFams :
          /\ json \in { Null, [fams |-> f.fams], [indis |-> <<>>, fams |-> f.fams],
                        [indis |-> is], [indis |-> is, fams |-> <<>>],
                        [indis |-> <<>>, fams |-> <<>>],
                        [indis |-> is, fams |-> f.fams] }
          /\ heap = f.heap
    /\ entries \in ConvertEntries
    /\ images \in { NoMap, [n \in {<<"p", ".", "j", "p", "g">>} |-> Blob1] }
    /\ engine \in Engines
    /\ result = NoResult
    /\ AppIdle

\* The heap and the record of a call of convertGedcom that ended with ret.
Ended(ret) ==
    /\ heap' = ret.heap
    /\ result' = [f \in DOMAIN ret \ {"heap"} |-> ret[f]] @@
                 [op |-> "convert", before |-> heap]

ConvertGedcom ==
    /\ result.op = "none"
    /\ Ended(convertGedcom(json, entries, images, heap, engine))
    /\ UNCHANGED <<json, entries, images, engine>>
    /\ UNCHANGED appVars

NextConvert == ConvertGedcom

SpecConvert == InitConvert /\ [][NextConvert]_vars

-----------------------------------------------------------------------------
(* C2: convertGedcom. *)

\* The converter's output is missing, or has no individual or no family.
NothingRead(js) ==
    \/ js = Null
    \/ "indis" \notin DOMAIN js
    \/ js.indis = <<>>
    \/ "fams" \notin DOMAIN js
    \/ js.fams = <<>>

IsPermutation(a, b) ==
    /\ Len(a) = Len(b)
    /\ \A x \in {a[i] : i \in DOMAIN a} \cup {b[i] : i \in DOMAIN b} :
          Cardinality({i \in DOMAIN a : a[i] = x}) = Cardinality({i \in DOMAIN b : b[i] = x})

\* The chart data returned is that of js with every family's children put in
\* the comparator's order and every individual's images filtered.
IsSortedAndFiltered(chartData, js, overrides, before, after) ==
    /\ Len(chartData.fams) = Len(js.fams)
    /\ \A i \in DOMAIN js.fams :
          /\ HasField(chartData.fams[i], "children") <=> HasField(js.fams[i], "children")
          /\ HasField(js.fams[i], "children") =>
                LET c == after[chartData.fams[i].children]
                IN  /\ IsPermutation(c, before[js.fams[i].children])
                    /\ \A k \in 1..(Len(c) - 1) :
                          birthDatesComparator(js, c[k], c[k + 1]) <= 0
    /\ Len(chartData.indis) = Len(js.indis)
    /\ \A i \in DOMAIN js.indis :
          /\ chartData.indis[i].id = js.indis[i].id
          /\ HasField(js.indis[i], "images") =>
                IsKeptSubsequence(chartData.indis[i].images, js.indis[i].images, overrides)

\* C2: convertGedcom throws the error 'Failed to read GEDCOM file', and returns
\* nothing, exactly when the converter's output is missing or has no
\* individual or no family; otherwise it returns the sorted and filtered
\* chart data with the record index.
ConvertFailsExactlyWhenNothingRead ==
    result.op = "convert" =>
        /\ result.threw <=> NothingRead(json)
        /\ result.threw =>
              /\ result.message = "Failed to read GEDCOM file"
              /\ ~HasField(result, "value")
        /\ ~result.threw =>
              /\ DOMAIN result.value = {"chartData", "gedcom"}
              /\ IsSortedAndFiltered(result.value.chartData, json, images, result.before, heap)
              /\ \A id \in Ids : IsLastOf(result.value.gedcom.indis, entries, id, IsIndi)
              /\ \A id \in Ids : IsLastOf(result.value.gedcom.fams, entries, id, IsFam)

\* A converter output with individuals and an empty families sequence: thrown.
WitnessNoFamilies ==
    /\ result.op = "convert"
    /\ HasField(json, "indis") /\ json.indis # <<>>
    /\ HasField(json, "fams") /\ json.fams = <<>>
    /\ result.threw

-----------------------------------------------------------------------------
(* The App component: isNewData, componentDidUpdate and the callbacks of *)
(* the promise a load returns. location holds the pathname and the       *)
(* query parameters getParam reads.                                      *)

\* The data loadGedcom(hash, gedcom) or loadFromUrl(url, handleCors) resolves
\* with: the file's when the load had a hash, else the url's.
LoadedData(hash, url) ==
    IF hash # None THEN [source |-> "file", key |-> hash]
    ELSE [source |-> "url", key |-> url]

\* getSelection(data.chartData, indi, generation): the individual asked for,
\* else the data's first.
getSelection(data, indi) ==
    [id |-> IF indi # None THEN indi ELSE "first", generation |-> 0]

isNewData(st, hash, url) ==
    (hash # None /\ hash # st.hash) \/ (url # None /\ st.url # url)

\* The state set when a load starts.
LoadingState(st, hash, url) ==
    [st EXCEPT !.data = Undefined, !.selection = Undefined, !.hash = hash,
               !.error = None, !.loading = TRUE, !.url = url]

\* The state the promise's fulfilment callback sets, for the load started
\* with the parameters ld.
ResolvedState(st, ld) ==
    LET data == LoadedData(ld.hash, ld.url)
    IN  [st EXCEPT !.data = data, !.hash = ld.hash,
                   !.selection = getSelection(data, ld.indi),
                   !.error = None, !.loading = FALSE, !.url = ld.url]

\* The state the promise's rejection callback sets.
RejectedState(st, ld) ==
    [st EXCEPT !.error = "error.message", !.loading = FALSE]

\* componentDidUpdate, with the updates its own setState and history.replace
\* calls cause: the location, state and pending loads when it has settled.
RECURSIVE componentDidUpdate(_, _, _)
componentDidUpdate(loc, st, pending) ==
    IF loc.pathname # "/view"
    THEN [location |-> loc, state |-> st, loads |-> pending]
    ELSE LET url == loc.url
             indi == loc.indi
             hash == loc.file
         IN  IF url = None /\ hash = None
             THEN componentDidUpdate(NoLocation, st, pending)
             ELSE IF isNewData(st, hash, url)
                  THEN componentDidUpdate(
                           loc, LoadingState(st, hash, url),
                           pending (+) SetToBag({[hash |-> hash, url |-> url, indi |-> indi]}))
             ELSE IF ~IsUndefined(st.data) /\ ~IsUndefined(st.selection)
                  THEN LET selection == getSelection(st.data, indi)
                       IN  IF st.selection.id # selection.id
                              \/ st.selection.generation # selection.generation
                           THEN componentDidUpdate(
                                    loc, [st EXCEPT !.selection = selection], pending)
                           ELSE [location |-> loc, state |-> st, loads |-> pending]
             ELSE [location |-> loc, state |-> st, loads |-> pending]

Hashes == {"h1", "h2"}
LoadUrls == {"u1"}
IndiParams == {"i1"}

\* The locations the router can hand to the component.
Locations ==
    {NoLocation}
    \cup [pathname : {"/view"}, file : Hashes \cup {None},
          url : LoadUrls \cup {None}, indi : IndiParams \cup {None}]

InitApp ==
    /\ location \in Locations
    /\ state = InitialState
    /\ loads = EmptyBag
    /\ mounted = FALSE
    /\ navs = 0
    /\ history = NoHistory
    /\ PureIdle

\* The component settles in the state componentDidUpdate left. pending: the
\* loads before componentDidUpdate ran; rejected: the loads this step rejected.
Settle(pending, after, rejected) ==
    /\ BagCardinality(after.loads) <= MaxLoads
    /\ location' = after.location
    /\ state' = after.state
    /\ loads' = after.loads
    /\ history' =
          IF after.location # location THEN NoHistory
          ELSE LET failed == history.failed \cup
                       { ld \in rejected : /\ location.pathname = "/view"
                                           /\ ld.hash = location.file
                                           /\ ld.url = location.url }
                   started == BagToSet(after.loads (-) pending)
               IN  [failed |-> failed,
                    retried |-> history.retried \/ (started \cap failed # {})]

\* componentDidMount
ComponentDidMount ==
    /\ ~mounted
    /\ mounted' = TRUE
    /\ Settle(loads, componentDidUpdate(location, state, loads), {})
    /\ UNCHANGED navs
    /\ UNCHANGED pureVars

\* The router hands the component another location: the component updates.
Navigate(loc) ==
    /\ mounted
    /\ navs < MaxNav
    /\ loc # location
    /\ navs' = navs + 1
    /\ LET after == componentDidUpdate(loc, state, loads)
       IN  /\ BagCardinality(after.loads) <= MaxLoads
           /\ location' = after.location
           /\ state' = after.state
           /\ loads' = after.loads
           /\ history' = NoHistory
    /\ UNCHANGED mounted
    /\ UNCHANGED pureVars

\* A pending load's promise is fulfilled.
Resolve(ld) ==
    /\ BagIn(ld, loads)
    /\ LET pending == loads (-) SetToBag({ld})
       IN  Settle(pending,
                  componentDidUpdate(location, ResolvedState(state, ld), pending), {})
    /\ UNCHANGED <<mounted, navs>>
    /\ UNCHANGED pureVars

\* A pending load's promise is rejected.
Reject(ld) ==
    /\ BagIn(ld, loads)
    /\ LET pending == loads (-) SetToBag({ld})
       IN  Settle(pending,
                  componentDidUpdate(location, RejectedState(state, ld), pending), {ld})
    /\ UNCHANGED <<mounted, navs>>
    /\ UNCHANGED pureVars

LoadParams == [hash : Hashes \cup {None}, url : LoadUrls \cup {None},
               indi : IndiParams \cup {None}]

Completes == \E ld \in LoadParams : Resolve(ld) \/ Reject(ld)

NextApp ==
    \/ ComponentDidMount
    \/ \E loc \in Locations : Navigate(loc)
    \/ \E ld \in LoadParams : Resolve(ld)
    \/ \E ld \in LoadParams : Reject(ld)

SpecApp == InitApp /\ [][NextApp]_vars

\* Every load started is fulfilled or rejected in the end.
FairSpecApp == SpecApp /\ WF_vars(ComponentDidMount) /\ WF_vars(Completes)

-----------------------------------------------------------------------------
(* C8, C9, C10: the App component. *)

Pending == BagCardinality(loads) > 0

ShowsChart == ~IsUndefined(state.data) /\ ~IsUndefined(state.selection)

\* A load started for the parameters of the location is pending.
CurrentLoadPending ==
    \E ld \in BagToSet(loads) :
        /\ location.pathname = "/view"
        /\ ld.hash = location.file
        /\ ld.url = location.url

\* C8, as a whole: state.loading is true exactly when a load started by
\* componentDidUpdate has neither resolved nor rejected yet.
LoadingIffPending == state.loading <=> Pending

\* C8, in the interleaving it names: state.loading is true while the load for
\* the current location is pending, also after a load for an earlier location
\* has resolved or rejected.
LoadingWhileCurrentLoadPending == CurrentLoadPending => state.loading

\* C9: at '/view', with the chart shown and no load pending, the data held is
\* the data loaded for the file hash / url parameters of the location.
ShownDataIsOfLocation ==
    (location.pathname = "/view" /\ ShowsChart /\ ~Pending) =>
        state.data = LoadedData(location.file, location.url)

\* componentDidUpdate changes nothing more.
Settled ==
    componentDidUpdate(location, state, loads)
        = [location |-> location, state |-> state, loads |-> loads]

\* C10, the retry: a load that rejected for the location is not started again
\* while the location is unchanged.
RejectedLoadNotStartedAgain == ~history.retried

\* C10, the termination: once the location stops changing and the loads
\* complete, no load stays pending and componentDidUpdate changes nothing more.
EventuallySettled == <>[](~Pending /\ Settled)

=============================================================================
